---------------------------- MODULE Spec2Model ----------------------------
(***************************************************************************)
(* dbmigrator: the migration script interpreter, the version selector and  *)
(* the engine's Process call, modelled from the Go sources.                *)
(*                                                                         *)
(* Texts (script lines, version texts) are TLA+ strings; a character is a  *)
(* string of length one.  A nil Semver is NilSemver, a nil error is        *)
(* NoError.                                                                *)
(***************************************************************************)
EXTENDS Integers, Sequences, FiniteSets

VARIABLES
    conf,              \* engine.conf: WithTransaction, MigrationsFilePath
    logger,            \* engine.logger # nil
    dir,               \* engine.dir
    targetVersion,     \* engine.targetVersion
    options,           \* the options New was given: direction, target version text
    tx,                \* database.tx: "nil", "open" or "done"
    tableExists,       \* INFORMATION_SCHEMA holds a row for the migrations table
    file,              \* the lines of the migration file on disk
    table,             \* the rows of the migrations table (version texts), oldest first
    txBegin,           \* the rows at the last StartTransaction (what Rollback restores)
    pc,                \* position of the running call
    api,               \* entry point of the running call
    lines,             \* Process: lines
    commands,          \* Process: commands
    currentVersion,    \* Process: currentVersion
    filteredCommands,  \* Process: filteredCommands
    idx,               \* runCommands: number of commands already run
    err,               \* the error in hand when a rollback is attempted
    result,            \* what the last finished call returned
    calls,             \* database and repository calls of the current call, in order
    run,               \* record of the current call: direction and target it selected with
    prev,              \* record of the last finished call
    runs,              \* number of calls started
    parser             \* ParseLines: its loop variables while it reads line by line

vars == <<conf, logger, dir, targetVersion, options, tx, tableExists, file, table,
          txBegin, pc, api, lines, commands, currentVersion, filteredCommands, idx,
          err, result, calls, run, prev, runs, parser>>

-----------------------------------------------------------------------------
(* strings *)

Char(s, i) == SubSeq(s, i, i)

Min(S) == CHOOSE m \in S : \A n \in S : m <= n

Max(S) == CHOOSE m \in S : \A n \in S : m >= n

\* strings.HasPrefix
HasPrefix(s, p) == Len(s) >= Len(p) /\ SubSeq(s, 1, Len(p)) = p

\* strings.HasSuffix
HasSuffix(s, p) == Len(s) >= Len(p) /\ SubSeq(s, Len(s) - Len(p) + 1, Len(s)) = p

\* strings.Index: the 0-based offset of the first occurrence, -1 when there is none
Index(s, sub) ==
    LET at == {i \in 1..(Len(s) - Len(sub) + 1) : SubSeq(s, i, i + Len(sub) - 1) = sub}
    IN  IF at = {} THEN -1 ELSE Min(at) - 1

IsSpace(c) == c \in {" ", "\t"}

\* strings.TrimSpace
TrimSpace(s) ==
    LET solid == {i \in 1..Len(s) : ~IsSpace(Char(s, i))}
    IN  IF solid = {} THEN "" ELSE SubSeq(s, Min(solid), Max(solid))

\* strings.Split with a non-empty separator
RECURSIVE Split(_, _)
Split(s, sep) ==
    LET i == Index(s, sep)
    IN  IF i = -1 THEN <<s>>
        ELSE <<SubSeq(s, 1, i)>> \o Split(SubSeq(s, i + Len(sep) + 1, Len(s)), sep)

\* strings.Join
RECURSIVE Join(_, _)
Join(elems, sep) ==
    IF Len(elems) = 0 THEN ""
    ELSE IF Len(elems) = 1 THEN elems[1]
    ELSE elems[1] \o sep \o Join(Tail(elems), sep)

Digits == "0123456789"

RECURSIVE DigitsValue(_)
DigitsValue(s) ==
    IF Len(s) = 0 THEN 0
    ELSE 10 * DigitsValue(SubSeq(s, 1, Len(s) - 1)) + Index(Digits, Char(s, Len(s)))

\* strconv.Atoi: an optional sign and at least one decimal digit
Atoi(s) ==
    LET signed == Len(s) > 0 /\ Char(s, 1) \in {"+", "-"}
        body   == IF signed THEN SubSeq(s, 2, Len(s)) ELSE s
        ok     == Len(body) > 0 /\ \A i \in 1..Len(body) : Index(Digits, Char(body, i)) # -1
    IN  IF ~ok THEN [ok |-> FALSE, val |-> 0]
        ELSE [ok |-> TRUE,
              val |-> IF signed /\ Char(s, 1) = "-" THEN 0 - DigitsValue(body)
                      ELSE DigitsValue(body)]

\* fmt's %d of a non-negative int
RECURSIVE Itoa(_)
Itoa(n) ==
    IF n < 10 THEN Char(Digits, n + 1)
    ELSE Itoa(n \div 10) \o Char(Digits, (n % 10) + 1)

-----------------------------------------------------------------------------
(* semver *)

versionSeparator == "."

NilSemver == [major |-> -1, minor |-> -1, patch |-> -1]

semver(ma, mi, pa) == [major |-> ma, minor |-> mi, patch |-> pa]

\* newSemver whose loop ends at the first component it cannot use (break for
\* continue)
newSemverBreak(str) ==
    IF str = "" THEN NilSemver
    ELSE IF str = "0.0.0" THEN semver(0, 0, 0)
    ELSE
        LET s1  == IF Char(str, 1) = "v" THEN SubSeq(str, 2, Len(str)) ELSE str
            spl == Split(s1, versionSeparator)
            usable(i) == Atoi(spl[i]).ok /\ Atoi(spl[i]).val >= 0
            part(i) ==
                IF i > Len(spl) THEN 0
                ELSE IF \E j \in 1..i : ~usable(j) THEN 0
                ELSE Atoi(spl[i]).val
            sv  == semver(part(1), part(2), part(3))
        IN  IF sv.major = 0 /\ sv.minor = 0 /\ sv.patch = 0 THEN NilSemver ELSE sv

\* newSemver without the test that one component is above zero
newSemverAnyZero(str) ==
    IF str = "" THEN NilSemver
    ELSE
        LET s1  == IF Char(str, 1) = "v" THEN SubSeq(str, 2, Len(str)) ELSE str
            spl == Split(s1, versionSeparator)
            part(i) ==
                IF i > Len(spl) THEN 0
                ELSE LET conv == Atoi(spl[i])
                     IN  IF ~conv.ok THEN 0
                         ELSE IF conv.val < 0 THEN 0
                         ELSE conv.val
        IN  semver(part(1), part(2), part(3))

newSemver(str) ==
    IF str = "" THEN NilSemver
    ELSE IF str = "0.0.0" THEN semver(0, 0, 0)
    ELSE
        LET s1  == IF Char(str, 1) = "v" THEN SubSeq(str, 2, Len(str)) ELSE str
            spl == Split(s1, versionSeparator)
            part(i) ==
                IF i > Len(spl) THEN 0
                ELSE LET conv == Atoi(spl[i])
                     IN  IF ~conv.ok THEN 0
                         ELSE IF conv.val < 0 THEN 0
                         ELSE conv.val
            sv  == semver(part(1), part(2), part(3))
        IN  IF sv.major = 0 /\ sv.minor = 0 /\ sv.patch = 0 THEN NilSemver ELSE sv

bottomVersion == newSemver("0.0.0")

\* GreaterThan whose test of the minor component forgets the major one
GreaterThanMinorAlone(sv, cmp) ==
    IF sv.major > cmp.major THEN TRUE
    ELSE IF sv.minor > cmp.minor THEN TRUE
    ELSE IF sv.major = cmp.major /\ sv.minor = cmp.minor /\ sv.patch > cmp.patch THEN TRUE
    ELSE FALSE

GreaterThan(sv, cmp) ==
    IF sv.major > cmp.major THEN TRUE
    ELSE IF sv.major = cmp.major /\ sv.minor > cmp.minor THEN TRUE
    ELSE IF sv.major = cmp.major /\ sv.minor = cmp.minor /\ sv.patch > cmp.patch THEN TRUE
    ELSE FALSE

\* a rendering of major and minor only
ToStringMajorMinor(sv) == Itoa(sv.major) \o "." \o Itoa(sv.minor)

\* a rendering that leaves out a patch of zero
ToStringShort(sv) ==
    IF sv.patch = 0 THEN Itoa(sv.major) \o "." \o Itoa(sv.minor)
    ELSE Itoa(sv.major) \o "." \o Itoa(sv.minor) \o "." \o Itoa(sv.patch)

ToString(sv) ==
    Itoa(sv.major) \o "." \o Itoa(sv.minor) \o "." \o Itoa(sv.patch)

Equals(sv, cmp) ==
    sv.major = cmp.major /\ sv.minor = cmp.minor /\ sv.patch = cmp.patch

\* WouldRollback that lets an equal patch through
WouldRollbackOrEqual(sv, cmp) ==
    IF sv.major < cmp.major THEN TRUE
    ELSE IF sv.major = cmp.major /\ sv.minor < cmp.minor THEN TRUE
    ELSE IF sv.major = cmp.major /\ sv.minor = cmp.minor /\ sv.patch <= cmp.patch THEN TRUE
    ELSE FALSE

WouldRollback(sv, cmp) ==
    IF sv.major < cmp.major THEN TRUE
    ELSE IF sv.major = cmp.major /\ sv.minor < cmp.minor THEN TRUE
    ELSE IF sv.major = cmp.major /\ sv.minor = cmp.minor /\ sv.patch < cmp.patch THEN TRUE
    ELSE FALSE

-----------------------------------------------------------------------------
(* command *)

DirectionUp == "up"

DirectionDown == "down"

newCommand(query, sv, d) == [query |-> query, version |-> sv, dir |-> d]

\* ShouldRun with "not below the current version" where the code has "above"
ShouldRunNotBelow(c, version, d, target) ==
    IF target # NilSemver THEN
        IF d = DirectionUp
        THEN GreaterThan(c.version, version) /\ ~GreaterThan(c.version, target)
        ELSE ~GreaterThan(c.version, version) /\ GreaterThan(c.version, target)
    ELSE IF d = DirectionDown THEN Equals(c.version, version)
    ELSE ~GreaterThan(version, c.version)

\* ShouldRun with the target itself inside the range of a Down run
ShouldRunClosedRange(c, version, d, target) ==
    IF target # NilSemver THEN
        IF d = DirectionUp
        THEN GreaterThan(c.version, version) /\ ~GreaterThan(c.version, target)
        ELSE ~GreaterThan(c.version, version) /\ ~GreaterThan(target, c.version)
    ELSE IF d = DirectionDown THEN Equals(c.version, version)
    ELSE GreaterThan(c.version, version)

ShouldRun(c, version, d, target) ==
    IF target # NilSemver THEN
        IF d = DirectionUp
        THEN GreaterThan(c.version, version) /\ ~GreaterThan(c.version, target)
        ELSE ~GreaterThan(c.version, version) /\ GreaterThan(c.version, target)
    ELSE IF d = DirectionDown THEN Equals(c.version, version)
    ELSE GreaterThan(c.version, version)

-----------------------------------------------------------------------------
(* selector and version helpers of the engine *)

\* filterCommands that returns its selection last command first
RECURSIVE filterCommandsLastFirst(_, _, _, _)
filterCommandsLastFirst(version, cmds, d, target) ==
    IF Len(cmds) = 0 THEN <<>>
    ELSE
        LET c    == Head(cmds)
            rest == filterCommandsLastFirst(version, Tail(cmds), d, target)
        IN  IF c.dir # d THEN rest
            ELSE IF version = NilSemver \/ ShouldRun(c, version, d, target)
                 THEN Append(rest, c)
                 ELSE rest

\* filterCommands without the test of the command's direction
RECURSIVE filterCommandsAnyDirection(_, _, _, _)
filterCommandsAnyDirection(version, cmds, d, target) ==
    IF Len(cmds) = 0 THEN <<>>
    ELSE
        LET c    == cmds[Len(cmds)]
            rest == filterCommandsAnyDirection(version, SubSeq(cmds, 1, Len(cmds) - 1), d, target)
        IN  IF version = NilSemver \/ ShouldRun(c, version, d, target)
            THEN Append(rest, c)
            ELSE rest

RECURSIVE filterCommands(_, _, _, _)
filterCommands(version, cmds, d, target) ==
    IF Len(cmds) = 0 THEN <<>>
    ELSE
        LET c    == cmds[Len(cmds)]
            rest == filterCommands(version, SubSeq(cmds, 1, Len(cmds) - 1), d, target)
        IN  IF c.dir # d THEN rest
            ELSE IF version = NilSemver \/ ShouldRun(c, version, d, target)
                 THEN Append(rest, c)
                 ELSE rest

RECURSIVE getLatestVersion(_)
getLatestVersion(cmds) ==
    IF Len(cmds) = 0 THEN bottomVersion
    ELSE
        LET sv == getLatestVersion(SubSeq(cmds, 1, Len(cmds) - 1))
            c  == cmds[Len(cmds)]
        IN  IF sv = NilSemver THEN c.version
            ELSE IF GreaterThan(c.version, sv) THEN c.version
            ELSE sv

\* getPreviousSemver that skips only the versions above the current one
RECURSIVE getPreviousSemverOrCurrent(_, _)
getPreviousSemverOrCurrent(current, cmds) ==
    IF Len(cmds) = 0 THEN bottomVersion
    ELSE
        LET sv        == getPreviousSemverOrCurrent(current, SubSeq(cmds, 1, Len(cmds) - 1))
            commandSv == cmds[Len(cmds)].version
        IN  IF WouldRollback(current, commandSv) THEN sv
            ELSE IF GreaterThan(commandSv, sv) THEN commandSv
            ELSE sv

RECURSIVE getPreviousSemver(_, _)
getPreviousSemver(current, cmds) ==
    IF Len(cmds) = 0 THEN bottomVersion
    ELSE
        LET sv        == getPreviousSemver(current, SubSeq(cmds, 1, Len(cmds) - 1))
            commandSv == cmds[Len(cmds)].version
        IN  IF WouldRollback(current, commandSv) \/ Equals(commandSv, current) THEN sv
            ELSE IF GreaterThan(commandSv, sv) THEN commandSv
            ELSE sv

-----------------------------------------------------------------------------
(* parser *)

versionProlog == "#v"

singleLineComment == "--"

multiLineCommentStart == "/*"

multiLineCommentEnd == "*/"

upCommand == "#[UP]"

downCommand == "#[DOWN]"

NoError == "nil"

ErrBadVersioning == "ErrBadVersioning"

ErrInvalidLastVersion == "ErrInvalidLastVersion"

ErrNoFilePath == "ErrNoFilePath"

ErrNothingToRun == "ErrNothingToRun"

\* the loop variables of ParseLines before the first line
ParseStart ==
    [currentVersion |-> NilSemver, lineStack |-> <<>>, commandStack |-> <<>>,
     isInsideMultiLineComment |-> FALSE, dir |-> DirectionUp, err |-> NoError]

\* ParseLines: a line that does not start with the version prolog
ParseContent(st, line) ==
    LET cut    == Index(line, singleLineComment)
        l1     == IF cut # -1 THEN SubSeq(line, 1, cut) ELSE line
        inside == IF Index(l1, multiLineCommentStart) # -1 THEN TRUE
                  ELSE st.isInsideMultiLineComment
    IN  IF Index(l1, multiLineCommentEnd) # -1
        THEN [st EXCEPT !.isInsideMultiLineComment = FALSE]
        ELSE IF inside THEN [st EXCEPT !.isInsideMultiLineComment = TRUE]
        ELSE IF l1 = "" THEN st
        ELSE
            LET stack == Append(st.lineStack, l1) IN
            IF HasSuffix(l1, ";")
            THEN [st EXCEPT
                    !.commandStack =
                        IF st.currentVersion # NilSemver
                        THEN Append(@, newCommand(Join(stack, " "), st.currentVersion, st.dir))
                        ELSE @,
                    !.lineStack = <<>>]
            ELSE [st EXCEPT !.lineStack = stack]

\* ParseVersion without the reset of the direction
ParseVersionKeepDir(st, line) ==
    LET spl == Split(line, versionProlog) IN
    IF Len(spl) # 2 THEN [st EXCEPT !.err = ErrBadVersioning]
    ELSE
        LET sv == newSemver(spl[2]) IN
        IF sv = NilSemver THEN [st EXCEPT !.err = ErrBadVersioning]
        ELSE [st EXCEPT
                !.lineStack = IF st.currentVersion # NilSemver THEN <<>> ELSE @,
                !.currentVersion = sv]

\* ParseLines: a line that starts with the version prolog
ParseVersion(st, line) ==
    LET spl == Split(line, versionProlog) IN
    IF Len(spl) # 2 THEN [st EXCEPT !.err = ErrBadVersioning]
    ELSE
        LET sv == newSemver(spl[2]) IN
        IF sv = NilSemver THEN [st EXCEPT !.err = ErrBadVersioning]
        ELSE [st EXCEPT
                !.lineStack = IF st.currentVersion # NilSemver THEN <<>> ELSE @,
                !.currentVersion = sv,
                !.dir = DirectionUp]

\* one iteration of the loop of ParseLines
ParseLine(st, raw) ==
    LET line == TrimSpace(raw) IN
    IF line = upCommand THEN [st EXCEPT !.dir = DirectionUp]
    ELSE IF line = downCommand THEN [st EXCEPT !.dir = DirectionDown]
    ELSE IF ~HasPrefix(line, versionProlog) THEN ParseContent(st, line)
    ELSE ParseVersion(st, line)

RECURSIVE ParseLoop(_, _)
ParseLoop(st, ls) ==
    IF Len(ls) = 0 \/ st.err # NoError THEN st
    ELSE ParseLoop(ParseLine(st, Head(ls)), Tail(ls))

\* ParseLines that returns what it has collected along with the error
ParseLinesKeepCommands(ls) ==
    LET st == ParseLoop(ParseStart, ls)
    IN  [commands |-> st.commandStack, err |-> st.err]

\* engine.ParseLines: the commands and the error it returns
ParseLines(ls) ==
    LET st == ParseLoop(ParseStart, ls)
    IN  IF st.err # NoError THEN [commands |-> <<>>, err |-> st.err]
        ELSE [commands |-> st.commandStack, err |-> NoError]

-----------------------------------------------------------------------------
(* the inputs the model draws from *)

MaxRuns == 2

MaxCommands == 3

ScriptUpDown ==
    << "#v1", "#[UP]", "CREATE TABLE a (", "id INT", ");", "#[DOWN]", "DROP TABLE a;",
       "#v1.2", "#[UP]", "ALTER TABLE a ADD b INT;", "#[DOWN]", "ALTER TABLE a DROP b;" >>

ScriptUnordered ==
    << "#v2", "#[DOWN]", "DROP TABLE c;",
       "#v1", "CREATE TABLE a (id INT);", "#[DOWN]", "DROP TABLE a;" >>

ScriptZeroBlock ==
    << "#v0.0.0", "#[DOWN]", "DROP TABLE z;", "#v1", "CREATE TABLE a (id INT);" >>

ScriptBadTag ==
    << "#v1", "CREATE TABLE a (id INT);", "#v", "DROP TABLE a;" >>

Scripts == {ScriptUpDown, ScriptUnordered, ScriptZeroBlock, ScriptBadTag}

Configs ==
    { [WithTransaction |-> TRUE,  MigrationsFilePath |-> "migrations.sql"],
      [WithTransaction |-> FALSE, MigrationsFilePath |-> "migrations.sql"],
      [WithTransaction |-> FALSE, MigrationsFilePath |-> ""] }

\* WithDirection and WithTargetVersion as given to New ("" : option not given)
Options ==
    { [dir |-> DirectionUp,   target |-> ""],
      [dir |-> DirectionDown, target |-> ""],
      [dir |-> DirectionUp,   target |-> "1"],
      [dir |-> DirectionUp,   target |-> "x"] }

\* the rows of the migrations table before the first call
Tables == { <<>>, <<"1.2.0">>, <<"abc">> }

\* the rows a call may find when it starts, rows being what the call before it
\* left: the table is kept outside the engine, so a row may have been written by
\* hand between two calls
ManualRow == "0.0"

TableAtEntry(rows, first) == IF first THEN {rows} ELSE {rows, Append(rows, ManualRow)}

\* the texts ProcessWithTargetVersion is called with
TargetTexts == {"1", "0.0.0", "x"}

-----------------------------------------------------------------------------
(* database: the transaction handle and how calls are routed *)

ErrTxDone == "sql: transaction has already been committed or rolled back"

errTxIsNil == "no transaction to commit"

\* database.Exec / Query / QueryRow: through d.tx whenever it is not nil
Route(t) == IF t # "nil" THEN "tx" ELSE "db"

\* what a call routed by Route can return: a finished sql.Tx answers ErrTxDone,
\* otherwise the driver decides between success and its own error
Outcomes(t, failure) ==
    IF Route(t) = "tx" /\ t = "done" THEN {ErrTxDone} ELSE {NoError, failure}

Call(op, arg, res) == [op |-> op, arg |-> arg, res |-> res]

-----------------------------------------------------------------------------
(* migrationsRepository *)

\* DoesExists: row.Scan(&name) != nil
DoesExists(t, exists) ==
    LET scan == IF Route(t) = "tx" /\ t = "done" THEN ErrTxDone
                ELSE IF exists THEN NoError
                ELSE "sql: no rows in result set"
    IN  scan # NoError

\* GetLatest: the version text of the newest row, "" for a nil *models.Migration
NoMigration == [found |-> FALSE, Version |-> ""]

GetLatest(t, rows) ==
    IF Route(t) = "tx" /\ t = "done" THEN NoMigration
    ELSE IF Len(rows) = 0 THEN NoMigration
    ELSE [found |-> TRUE, Version |-> rows[Len(rows)]]

-----------------------------------------------------------------------------
(* engine *)

\* what is remembered of the current call: the argument of its wrapper, the rows of
\* the table when it started, whether filterCommands has run and, if so, the
\* direction and target it was given
NoRun == [dir |-> DirectionUp, target |-> NilSemver, arg |-> "", table |-> <<>>,
          selected |-> FALSE]

\* what is remembered of the call before the current one: whether it returned nil
\* and, if so, the direction and target it selected with and the versions it ran
NoPrev == [ok |-> FALSE, dir |-> DirectionUp, target |-> NilSemver, versions |-> {}]

Init ==
    /\ conf \in Configs
    /\ logger \in BOOLEAN
    /\ options \in Options
    /\ dir = options.dir
    /\ targetVersion = newSemver(options.target)
    /\ tx = "nil"
    /\ tableExists \in BOOLEAN
    /\ file \in Scripts
    /\ table \in Tables
    /\ txBegin = <<>>
    /\ pc = "idle"
    /\ api = "none"
    /\ lines = <<>>
    /\ commands = <<>>
    /\ currentVersion = NilSemver
    /\ filteredCommands = <<>>
    /\ idx = 0
    /\ err = NoError
    /\ result = "none"
    /\ calls = <<>>
    /\ run = NoRun
    /\ prev = NoPrev
    /\ runs = 0
    /\ parser = ParseStart

\* the frame of a call that starts: fresh locals, the finished call remembered
Enter(entry, arg) ==
    /\ pc \in {"idle", "done"}
    /\ runs < MaxRuns
    /\ runs' = runs + 1
    /\ api' = entry
    /\ prev' = IF pc = "done" /\ result = NoError
               THEN [ok |-> TRUE, dir |-> run.dir, target |-> run.target,
                     versions |-> {filteredCommands[i].version : i \in 1..Len(filteredCommands)}]
               ELSE NoPrev
    /\ table' \in TableAtEntry(table, runs = 0)
    /\ run' = [NoRun EXCEPT !.arg = arg, !.table = table']
    /\ lines' = <<>>
    /\ commands' = <<>>
    /\ currentVersion' = NilSemver
    /\ filteredCommands' = <<>>
    /\ idx' = 0
    /\ err' = NoError
    /\ calls' = <<>>
    /\ UNCHANGED <<parser, conf, logger, options, tx, tableExists, file, txBegin>>

\* a return of Process without the deferred resets of the wrappers
ReturnKeep(r, d) ==
    /\ pc' = "done"
    /\ result' = r
    /\ dir' = d
    /\ targetVersion' = targetVersion

\* a return of Process with error r (NoError: nil), engine direction d at that
\* moment; the deferred resets of the two wrappers run here
Return(r, d) ==
    /\ pc' = "done"
    /\ result' = r
    /\ dir' = IF api = "ProcessWithDirection" THEN DirectionUp ELSE d
    /\ targetVersion' = IF api = "ProcessWithTargetVersion" THEN NilSemver ELSE targetVersion

CallProcess ==
    /\ Enter("Process", "")
    /\ pc' = "SetupDatabase"
    /\ UNCHANGED <<dir, targetVersion, result>>

ProcessWithDirection ==
    \E d \in {DirectionUp, DirectionDown} :
        /\ Enter("ProcessWithDirection", d)
        /\ dir' = d
        /\ pc' = "SetupDatabase"
        /\ UNCHANGED <<targetVersion, result>>

ProcessWithTargetVersion ==
    \E v \in TargetTexts :
        LET sv == newSemver(v) IN
        /\ Enter("ProcessWithTargetVersion", v)
        /\ IF sv = NilSemver
           THEN /\ pc' = "done"
                /\ result' = ErrBadVersioning
                /\ UNCHANGED <<dir, targetVersion>>
           ELSE /\ targetVersion' = sv
                /\ pc' = "SetupDatabase"
                /\ UNCHANGED <<dir, result>>

\* Process: e.SetupDatabase()
SetupDatabase ==
    /\ pc = "SetupDatabase"
    /\ IF DoesExists(tx, tableExists)
       THEN /\ calls' = Append(calls, Call("DoesExists", "", "true"))
            /\ pc' = "GetLines"
            /\ UNCHANGED <<tableExists, result, dir, targetVersion>>
       ELSE \E r \in Outcomes(tx, "create error") :
            /\ calls' = calls \o << Call("DoesExists", "", "false"), Call("CreateTable", "", r) >>
            /\ IF r = NoError
               THEN /\ tableExists' = TRUE
                    /\ pc' = "GetLines"
                    /\ UNCHANGED <<result, dir, targetVersion>>
               ELSE /\ Return(r, dir)
                    /\ UNCHANGED tableExists
    /\ UNCHANGED <<parser, conf, logger, options, tx, file, table, txBegin, api, lines, commands,
                   currentVersion, filteredCommands, idx, err, run, prev, runs>>

\* Process: e.GetLines()
GetLines ==
    /\ pc = "GetLines"
    /\ IF conf.MigrationsFilePath = ""
       THEN /\ Return(ErrNoFilePath, dir)
            /\ UNCHANGED lines
       ELSE \E opened \in BOOLEAN :
            IF opened
            THEN /\ lines' = file
                 /\ pc' = "ParseLines"
                 /\ UNCHANGED <<result, dir, targetVersion>>
            ELSE /\ Return("open error", dir)
                 /\ UNCHANGED lines
    /\ UNCHANGED <<parser, conf, logger, options, tx, tableExists, file, table, txBegin, api,
                   commands, currentVersion, filteredCommands, idx, err, calls, run,
                   prev, runs>>

\* Process: e.ParseLines(lines)
ParseLinesStep ==
    /\ pc = "ParseLines"
    /\ LET parsed == ParseLines(lines) IN
       IF parsed.err # NoError
       THEN /\ Return(parsed.err, dir)
            /\ UNCHANGED commands
       ELSE /\ commands' = parsed.commands
            /\ pc' = "GetLatest"
            /\ UNCHANGED <<result, dir, targetVersion>>
    /\ UNCHANGED <<parser, conf, logger, options, tx, tableExists, file, table, txBegin, api,
                   lines, currentVersion, filteredCommands, idx, err, calls, run,
                   prev, runs>>

\* Process: the stored version is read and parsed, then logged with e.Info
ResolveVersion ==
    /\ pc = "GetLatest"
    /\ calls' = Append(calls, Call("GetLatest", "", "nil"))
    /\ LET current      == GetLatest(tx, table)
           latestSemver == newSemver(current.Version)
       IN  IF current.found /\ latestSemver = NilSemver
           THEN /\ Return(ErrInvalidLastVersion, dir)
                /\ UNCHANGED currentVersion
           ELSE /\ currentVersion' = IF current.found THEN latestSemver ELSE bottomVersion
                /\ pc' = IF logger THEN "Info" ELSE "Filter"
                /\ UNCHANGED <<result, dir, targetVersion>>
    /\ UNCHANGED <<parser, conf, logger, options, tx, tableExists, file, table, txBegin, api,
                   lines, commands, filteredCommands, idx, err, run, prev, runs>>

\* engine.Info / engine.Error with a logger set: the method calls itself, not the
\* logger, until the goroutine's stack is exhausted and the runtime aborts
Info ==
    /\ pc = "Info"
    /\ pc' = "crashed"
    /\ UNCHANGED <<parser, conf, logger, dir, targetVersion, options, tx, tableExists, file,
                   table, txBegin, api, lines, commands, currentVersion,
                   filteredCommands, idx, err, result, calls, run, prev, runs>>

\* the direction Process selects with: forced down by a target below the current version
SelectDirection(d, current, target) ==
    IF target # NilSemver /\ GreaterThan(current, target) THEN DirectionDown ELSE d

\* an empty selection let through to the runner
NothingToRunNever(filtered) == FALSE

\* Process: len(filteredCommands) == 0
NothingToRun(filtered) == Len(filtered) = 0

\* Process: direction switch, filterCommands, ErrNothingToRun
Filter ==
    /\ pc = "Filter"
    /\ LET d        == SelectDirection(dir, currentVersion, targetVersion)
           filtered == filterCommands(currentVersion, commands, d, targetVersion)
       IN  /\ run' = [run EXCEPT !.dir = d, !.target = targetVersion, !.selected = TRUE]
           /\ filteredCommands' = filtered
           /\ IF NothingToRun(filtered)
              THEN Return(ErrNothingToRun, d)
              ELSE /\ dir' = d
                   /\ pc' = IF conf.WithTransaction THEN "StartTransaction" ELSE "runCommands"
                   /\ UNCHANGED <<result, targetVersion>>
    /\ UNCHANGED <<parser, conf, logger, options, tx, tableExists, file, table, txBegin, api,
                   lines, commands, currentVersion, idx, err, calls, prev, runs>>

\* Process: e.db.StartTransaction()
StartTransaction ==
    /\ pc = "StartTransaction"
    /\ \E r \in {NoError, "begin error"} :
        /\ calls' = Append(calls, Call("StartTransaction", "", r))
        /\ IF r = NoError
           THEN /\ tx' = "open"
                /\ txBegin' = table
                /\ pc' = "runCommands"
                /\ UNCHANGED <<result, dir, targetVersion>>
           ELSE /\ Return(r, dir)
                /\ UNCHANGED <<tx, txBegin>>
    /\ UNCHANGED <<parser, conf, logger, options, tableExists, file, table, api, lines, commands,
                   currentVersion, filteredCommands, idx, err, run, prev, runs>>

\* runCommands that logs every failure and goes on, transaction or not
AfterCommandContinue(r, withTransaction, hasLogger) ==
    IF r = NoError THEN "runCommands"
    ELSE IF hasLogger THEN "crashed"
    ELSE "runCommands"

\* runCommands that returns the first failure, transaction or not
AfterCommandStop(r, withTransaction, hasLogger) ==
    IF r = NoError THEN "runCommands" ELSE "Rollback"

\* runCommands: where the loop goes after c.Run() returned r; with a transaction
\* the error is returned (and Process rolls back), without one it is logged with
\* logger.Error, the engine's own method
AfterCommand(r, withTransaction, hasLogger) ==
    IF r = NoError THEN "runCommands"
    ELSE IF withTransaction THEN "Rollback"
    ELSE IF hasLogger THEN "crashed"
    ELSE "runCommands"

\* runCommands handed every parsed command
commandsToRunAll(filtered, parsed) == parsed

\* Process: the commands handed to runCommands
commandsToRun(filtered, parsed) == filtered

\* runCommands: one iteration, c.Run() of the next filtered command, or the end
\* of the loop
runCommands ==
    /\ pc = "runCommands"
    /\ IF idx < Len(commandsToRun(filteredCommands, commands))
       THEN \E r \in Outcomes(tx, "exec error") :
            /\ calls' = Append(calls, Call("Exec", commandsToRun(filteredCommands, commands)[idx + 1].query, r))
            /\ idx' = idx + 1
            /\ err' = IF r # NoError /\ conf.WithTransaction THEN r ELSE err
            /\ pc' = AfterCommand(r, conf.WithTransaction, logger)
       ELSE /\ pc' = "Insert"
            /\ UNCHANGED <<calls, idx, err>>
    /\ UNCHANGED <<parser, conf, logger, dir, targetVersion, options, tx, tableExists, file,
                   table, txBegin, api, lines, commands, currentVersion,
                   filteredCommands, result, run, prev, runs>>

\* the error of Rollback dropped in favour of the cause
RollbackResultCause(r, cause) == cause

\* Process: what is returned after Rollback returned r, cause being the error that
\* led to the rollback
RollbackResult(r, cause) == IF r # NoError THEN r ELSE cause

\* Process: e.db.Rollback() after a failed command or a failed insert
Rollback ==
    /\ pc = "Rollback"
    /\ \E r \in (IF tx = "nil" THEN {errTxIsNil} ELSE {NoError, "rollback error"}) :
        /\ calls' = Append(calls, Call("Rollback", "", r))
        /\ tx' = IF tx = "nil" THEN "nil" ELSE "done"
        /\ table' = IF tx = "nil" THEN table ELSE txBegin
        /\ Return(RollbackResult(r, err), dir)
    /\ UNCHANGED <<parser, conf, logger, options, tableExists, file, txBegin, api, lines,
                   commands, currentVersion, filteredCommands, idx, err, run, prev, runs>>

\* the version to store taken from the executed commands only
newLatestVersionOfSelected(target, d, current, cmds) ==
    IF target # NilSemver THEN target
    ELSE IF d = DirectionUp THEN getLatestVersion(filteredCommands)
    ELSE getPreviousSemver(current, cmds)

\* the version to store computed from the direction alone
newLatestVersionNoTarget(target, d, current, cmds) ==
    IF d = DirectionUp THEN getLatestVersion(cmds)
    ELSE getPreviousSemver(current, cmds)

\* Process: the version to store after the commands ran
newLatestVersion(target, d, current, cmds) ==
    IF target # NilSemver THEN target
    ELSE IF d = DirectionUp THEN getLatestVersion(cmds)
    ELSE getPreviousSemver(current, cmds)

\* Process: Migrations.Insert(newLatestVersion.ToString())
Insert ==
    /\ pc = "Insert"
    /\ LET text == ToString(newLatestVersion(targetVersion, dir, currentVersion, commands)) IN
       \E r \in Outcomes(tx, "insert error") :
        /\ calls' = Append(calls, Call("Insert", text, r))
        /\ IF r # NoError
           THEN IF conf.WithTransaction
                THEN /\ pc' = "Rollback"
                     /\ err' = r
                     /\ UNCHANGED <<table, result, dir, targetVersion>>
                ELSE /\ Return(r, dir)
                     /\ UNCHANGED <<table, err>>
           ELSE /\ table' = Append(table, text)
                /\ IF conf.WithTransaction
                   THEN /\ pc' = "Commit"
                        /\ UNCHANGED <<result, dir, targetVersion>>
                   ELSE Return(NoError, dir)
                /\ UNCHANGED err
    /\ UNCHANGED <<parser, conf, logger, options, tx, tableExists, file, txBegin, api, lines,
                   commands, currentVersion, filteredCommands, idx, run, prev, runs>>

\* Process: e.db.Commit()
Commit ==
    /\ pc = "Commit"
    /\ \E r \in (IF tx = "nil" THEN {errTxIsNil} ELSE {NoError, "commit error"}) :
        /\ calls' = Append(calls, Call("Commit", "", r))
        /\ tx' = IF tx = "nil" THEN "nil" ELSE "done"
        /\ table' = IF r # NoError /\ tx # "nil" THEN txBegin ELSE table
        /\ Return(r, dir)
    /\ UNCHANGED <<parser, conf, logger, options, tableExists, file, txBegin, api, lines,
                   commands, currentVersion, filteredCommands, idx, err, run, prev, runs>>

Next ==
    \/ CallProcess
    \/ ProcessWithDirection
    \/ ProcessWithTargetVersion
    \/ SetupDatabase
    \/ GetLines
    \/ ParseLinesStep
    \/ ResolveVersion
    \/ Info
    \/ Filter
    \/ StartTransaction
    \/ runCommands
    \/ Rollback
    \/ Insert
    \/ Commit

Spec == Init /\ [][Next]_vars

-----------------------------------------------------------------------------
(* the selector on its own: filterCommands applied to drawn arguments *)

SelectorVersions == {semver(0, 0, 0), semver(0, 2, 1), semver(1, 0, 2), semver(1, 1, 0)}

SelectorCommands ==
    {newCommand(ToString(v) \o " " \o d, v, d) :
        v \in SelectorVersions, d \in {DirectionUp, DirectionDown}}

SelectorInit ==
    /\ currentVersion \in SelectorVersions
    /\ commands \in UNION {[1..n -> SelectorCommands] : n \in 0..MaxCommands}
    /\ dir \in {DirectionUp, DirectionDown}
    /\ targetVersion \in SelectorVersions \cup {NilSemver}
    /\ filteredCommands = <<>>
    /\ pc = "Filter"
    /\ conf = [WithTransaction |-> FALSE, MigrationsFilePath |-> ""]
    /\ logger = FALSE
    /\ options = [dir |-> DirectionUp, target |-> ""]
    /\ tx = "nil"
    /\ tableExists = FALSE
    /\ file = <<>>
    /\ table = <<>>
    /\ txBegin = <<>>
    /\ api = "none"
    /\ lines = <<>>
    /\ idx = 0
    /\ err = NoError
    /\ result = "none"
    /\ calls = <<>>
    /\ run = NoRun
    /\ prev = NoPrev
    /\ runs = 0
    /\ parser = ParseStart

ApplyFilterCommands ==
    /\ pc = "Filter"
    /\ filteredCommands' = filterCommands(currentVersion, commands, dir, targetVersion)
    /\ pc' = "filtered"
    /\ UNCHANGED <<parser, conf, logger, dir, targetVersion, options, tx, tableExists, file,
                   table, txBegin, api, lines, commands, currentVersion, idx, err,
                   result, calls, run, prev, runs>>

SelectorNext == ApplyFilterCommands

SelectorSpec == SelectorInit /\ [][SelectorNext]_vars

-----------------------------------------------------------------------------
(* the semver functions applied to versions and to version texts *)

MaxComponent == 2

SemverValues ==
    {semver(ma, mi, pa) : ma \in 0..MaxComponent, mi \in 0..MaxComponent,
                          pa \in 0..MaxComponent}

\* texts given to newSemver: the cases of TestNewSemver and texts around them
VersionTexts ==
    { "", "0.0.0", "0.0", "0", "v0.0.0", "abc.asd.asd", "v", "0.0.0.0", "0.0.0.1",
      "1", "1.2", "1.2.3", "v1.2.3", "v1", "1.2.3.4", "0.0.1", "0.1", "10.0.12",
      "1.-2", "-1.2", "+1.2", "01.2", "1..2", ".1", "1.x.3", "x.2", "1.2.", "-0.0.0",
      "00.0.0", "v0.0.1", "vv1", "1 .2", "12", "1.fo.3", "fo.2.3", "1.2.-3" }

BoolText(b) == IF b THEN "true" ELSE "false"

\* the variables the semver functions do not use
SemverIdle ==
    /\ commands = <<>>
    /\ dir = DirectionUp
    /\ filteredCommands = <<>>
    /\ conf = [WithTransaction |-> FALSE, MigrationsFilePath |-> ""]
    /\ logger = FALSE
    /\ options = [dir |-> DirectionUp, target |-> ""]
    /\ tx = "nil"
    /\ tableExists = FALSE
    /\ file = <<>>
    /\ table = <<>>
    /\ txBegin = <<>>
    /\ api = "none"
    /\ idx = 0
    /\ err = NoError
    /\ result = "none"
    /\ calls = <<>>
    /\ run = NoRun
    /\ prev = NoPrev
    /\ runs = 0
    /\ parser = ParseStart

\* either two versions to compare (sv: currentVersion, cmp: targetVersion) or a
\* text to parse (lines[1])
SemverInit ==
    /\ SemverIdle
    /\ \/ /\ pc = "GreaterThan"
          /\ currentVersion \in SemverValues
          /\ targetVersion \in SemverValues
          /\ lines = <<>>
       \/ /\ pc = "newSemver"
          /\ currentVersion = NilSemver
          /\ targetVersion = NilSemver
          /\ lines \in {<<t>> : t \in VersionTexts}

SemverUnused ==
    UNCHANGED <<parser, conf, logger, dir, options, tx, tableExists, file, table, txBegin, api,
                lines, commands, filteredCommands, idx, err, run, prev, runs>>

ApplyGreaterThan ==
    /\ pc = "GreaterThan"
    /\ calls' = Append(calls, Call("GreaterThan", "",
                                   BoolText(GreaterThan(currentVersion, targetVersion))))
    /\ pc' = "Equals"
    /\ UNCHANGED <<currentVersion, targetVersion, result>>
    /\ SemverUnused

ApplyEquals ==
    /\ pc = "Equals"
    /\ calls' = Append(calls, Call("Equals", "",
                                   BoolText(Equals(currentVersion, targetVersion))))
    /\ pc' = "WouldRollback"
    /\ UNCHANGED <<currentVersion, targetVersion, result>>
    /\ SemverUnused

ApplyWouldRollback ==
    /\ pc = "WouldRollback"
    /\ calls' = Append(calls, Call("WouldRollback", "",
                                   BoolText(WouldRollback(currentVersion, targetVersion))))
    /\ pc' = "compared"
    /\ UNCHANGED <<currentVersion, targetVersion, result>>
    /\ SemverUnused

\* sv := newSemver(text)
ApplyNewSemver ==
    /\ pc = "newSemver"
    /\ currentVersion' = newSemver(lines[1])
    /\ pc' = "parsed"
    /\ UNCHANGED <<targetVersion, result, calls>>
    /\ SemverUnused

\* text := sv.ToString(); a nil Semver has no text
ApplyToString ==
    /\ pc = "parsed"
    /\ currentVersion # NilSemver
    /\ result' = ToString(currentVersion)
    /\ pc' = "rendered"
    /\ UNCHANGED <<currentVersion, targetVersion, calls>>
    /\ SemverUnused

\* newSemver of the text ToString gave, kept in targetVersion
ApplyNewSemverAgain ==
    /\ pc = "rendered"
    /\ targetVersion' = newSemver(result)
    /\ pc' = "reparsed"
    /\ UNCHANGED <<currentVersion, result, calls>>
    /\ SemverUnused

SemverNext ==
    \/ ApplyGreaterThan
    \/ ApplyEquals
    \/ ApplyWouldRollback
    \/ ApplyNewSemver
    \/ ApplyToString
    \/ ApplyNewSemverAgain

SemverSpec == SemverInit /\ [][SemverNext]_vars

-----------------------------------------------------------------------------
(* ParseLines reading a script line by line *)

MaxLines == 4

\* the lines a script is made of
ParserLines ==
    { "#v1", "#v2", "#[UP]", "#[DOWN]", "A", "B;", "C; -- n", "/*", "*/", "",
      "#v", "#vx", "#v1#v2" }

ParserInit ==
    /\ SemverIdle
    /\ pc = "ParseLines"
    /\ lines = <<>>
    /\ currentVersion = NilSemver
    /\ targetVersion = NilSemver

\* one iteration of the loop: the next line of the input, whatever it is
ParseLineStep ==
    /\ pc = "ParseLines"
    /\ parser.err = NoError
    /\ Len(lines) < MaxLines
    /\ \E raw \in ParserLines :
        /\ lines' = Append(lines, raw)
        /\ parser' = ParseLine(parser, raw)
    /\ UNCHANGED <<conf, logger, dir, targetVersion, options, tx, tableExists, file,
                   table, txBegin, pc, api, commands, currentVersion, filteredCommands,
                   idx, err, result, calls, run, prev, runs>>

\* the input ends (or an error ended the loop): what ParseLines returns
ParseReturn ==
    /\ pc = "ParseLines"
    /\ commands' = ParseLines(lines).commands
    /\ err' = ParseLines(lines).err
    /\ pc' = "parsed"
    /\ UNCHANGED <<parser, conf, logger, dir, targetVersion, options, tx, tableExists,
                   file, table, txBegin, api, lines, currentVersion, filteredCommands,
                   idx, result, calls, run, prev, runs>>

ParserNext ==
    \/ ParseLineStep
    \/ ParseReturn

ParserSpec == ParserInit /\ [][ParserNext]_vars

-----------------------------------------------------------------------------
(* the order of versions, stated on the triple (major, minor, patch) *)

Versions(cmds) == {cmds[i].version : i \in 1..Len(cmds)}

Above(a, b) ==
    \/ a.major > b.major
    \/ a.major = b.major /\ a.minor > b.minor
    \/ a.major = b.major /\ a.minor = b.minor /\ a.patch > b.patch

AtMost(a, b) == a = b \/ Above(b, a)

\* the subsequence of cmds with direction d and a version in the set Keep
Selected(cmds, d, Keep) ==
    LET Test(c) == c.dir = d /\ c.version \in Keep
    IN  SelectSeq(cmds, Test)

-----------------------------------------------------------------------------
(* C1: in direction Up without a target, filterCommands returns exactly the *)
(* Up statements whose version is strictly above the current version, in   *)
(* input order.                                                             *)

C1_UpNoTarget ==
    (pc = "filtered" /\ dir = DirectionUp /\ targetVersion = NilSemver) =>
        LET Keep == {v \in Versions(commands) : Above(v, currentVersion)}
        IN  filteredCommands = Selected(commands, DirectionUp, Keep)

C1_Witness ==
    /\ pc = "filtered" /\ dir = DirectionUp /\ targetVersion = NilSemver
    /\ currentVersion = semver(0, 2, 1)
    /\ Len(commands) = 3 /\ Len(filteredCommands) = 2
    /\ filteredCommands[1].version = semver(1, 1, 0)
    /\ filteredCommands[2].version = semver(1, 0, 2)
    /\ \E i \in 1..3 : commands[i].dir = DirectionUp /\ ~Above(commands[i].version, currentVersion)

(* C2: in direction Down without a target, filterCommands returns exactly  *)
(* the Down statements whose version equals the current version, in input  *)
(* order.                                                                   *)

C2_DownNoTarget ==
    (pc = "filtered" /\ dir = DirectionDown /\ targetVersion = NilSemver) =>
        LET Keep == {currentVersion}
        IN  filteredCommands = Selected(commands, DirectionDown, Keep)

C2_Witness ==
    /\ pc = "filtered" /\ dir = DirectionDown /\ targetVersion = NilSemver
    /\ Len(commands) = 3 /\ Len(filteredCommands) = 1
    /\ \E i \in 1..3 : commands[i].dir = DirectionUp /\ commands[i].version = currentVersion
    /\ \E i \in 1..3 : commands[i].dir = DirectionDown /\ Above(currentVersion, commands[i].version)

(* C3: with a target, direction Up selects the Up statements with          *)
(* current < version <= target and direction Down the Down statements with *)
(* target < version <= current, in input order.                            *)

C3_WithTarget ==
    (pc = "filtered" /\ targetVersion # NilSemver) =>
        LET KeepUp   == {v \in Versions(commands) :
                            Above(v, currentVersion) /\ AtMost(v, targetVersion)}
            KeepDown == {v \in Versions(commands) :
                            Above(v, targetVersion) /\ AtMost(v, currentVersion)}
        IN  filteredCommands =
                IF dir = DirectionUp THEN Selected(commands, DirectionUp, KeepUp)
                ELSE Selected(commands, DirectionDown, KeepDown)

C3_Witness ==
    /\ pc = "filtered" /\ dir = DirectionDown
    /\ targetVersion = semver(0, 2, 1) /\ currentVersion = semver(1, 1, 0)
    /\ Len(commands) = 3 /\ Len(filteredCommands) = 2
    /\ filteredCommands[1].version = semver(1, 1, 0)
    /\ filteredCommands[2].version = semver(1, 0, 2)
    /\ \E i \in 1..3 : commands[i].dir = DirectionDown /\ commands[i].version = targetVersion

-----------------------------------------------------------------------------
(* reading the record of calls of the current Process call *)

Last(seq) == seq[Len(seq)]

\* positions of the calls of operation op, and of those that returned an error
Ops(op) == {i \in 1..Len(calls) : calls[i].op = op}

Failed(op) == {i \in Ops(op) : calls[i].res # NoError}

\* the statements handed to Exec, in the order of the calls
ExecQueries ==
    LET IsExec(c) == c.op = "Exec"
        execs == SelectSeq(calls, IsExec)
    IN  [i \in 1..Len(execs) |-> execs[i].arg]

Queries(cmds) == [i \in 1..Len(cmds) |-> cmds[i].query]

\* the version of the newest row when the current call started (NilSemver: no row,
\* or a text that is no version)
StoredAtStart == IF Len(run.table) = 0 THEN NilSemver ELSE newSemver(Last(run.table))

\* the greatest of a non-empty set of versions
Greatest(S) == CHOOSE v \in S : \A w \in S : ~Above(w, v)

(* C4: a Process call whose target is strictly below the stored current    *)
(* version selects in direction Down, selects exactly the Down statements  *)
(* with target < version <= stored version, and on success the newest row  *)
(* is the target.                                                           *)

C4_AutoSwitch ==
    (run.selected /\ run.target # NilSemver /\ StoredAtStart # NilSemver
        /\ Above(StoredAtStart, run.target)) =>
        LET Keep == {v \in Versions(commands) :
                        Above(v, run.target) /\ AtMost(v, StoredAtStart)} IN
        /\ run.dir = DirectionDown
        /\ filteredCommands = Selected(commands, DirectionDown, Keep)
        /\ (pc = "done" /\ result = NoError => Last(table) = ToString(run.target))

(* C5: in a transactional run, once a selected statement has failed no     *)
(* further statement is executed, no version record is inserted and Commit *)
(* is not called; Rollback is called on the open transaction and Process   *)
(* returns an error.                                                        *)

C5_FailFast ==
    (conf.WithTransaction /\ Failed("Exec") # {}) =>
        LET f == Min(Failed("Exec")) IN
        /\ \A i \in Ops("Exec") : i <= f
        /\ Ops("Insert") = {} /\ Ops("Commit") = {}
        /\ pc \in {"Rollback", "done"}
        /\ pc = "Rollback" => tx = "open" /\ Last(calls).op = "Exec"
        /\ pc = "done" => Ops("Rollback") = {Len(calls)} /\ f = Len(calls) - 1
                          /\ result # NoError

C5_Witness ==
    /\ conf.WithTransaction /\ pc = "done"
    /\ Len(filteredCommands) = 2
    /\ Failed("Exec") # {} /\ Cardinality(Ops("Exec")) = 1
    /\ Ops("Rollback") # {}

(* C6: when a statement or the version insert fails inside a transaction,  *)
(* Process returns that error if Rollback succeeds and the error of        *)
(* Rollback if Rollback fails.                                              *)

C6_ErrorIdentity ==
    (conf.WithTransaction /\ pc = "done" /\ Failed("Exec") \cup Failed("Insert") # {}) =>
        LET cause    == calls[Min(Failed("Exec") \cup Failed("Insert"))].res
            rollback == Last(calls)
        IN  /\ rollback.op = "Rollback"
            /\ result = IF rollback.res = NoError THEN cause ELSE rollback.res

C6_Witness ==
    /\ conf.WithTransaction /\ pc = "done"
    /\ Failed("Exec") # {} /\ Cardinality(Ops("Exec")) = 2
    /\ Last(calls).op = "Rollback" /\ Last(calls).res = NoError
    /\ result = "exec error"

C6_WitnessInsert ==
    /\ conf.WithTransaction /\ pc = "done"
    /\ Failed("Insert") # {}
    /\ Last(calls).op = "Rollback" /\ Last(calls).res = NoError
    /\ result = "insert error"

C6_WitnessRollbackFails ==
    /\ conf.WithTransaction /\ pc = "done"
    /\ Failed("Exec") # {}
    /\ Last(calls).op = "Rollback" /\ Last(calls).res # NoError
    /\ result = "rollback error"

(* C7: in a run without a transaction every selected statement is executed *)
(* exactly once, in order, whether or not earlier ones failed; a statement *)
(* failure never becomes the result of Process, and the version insert     *)
(* follows the batch.                                                       *)

C7_NonTransactional ==
    (~conf.WithTransaction /\ run.selected) =>
        /\ pc # "crashed" /\ pc # "Rollback"
        /\ ExecQueries = SubSeq(Queries(filteredCommands), 1, idx)
        /\ pc = "Insert" => idx = Len(filteredCommands)
        /\ (pc = "done" /\ ~NothingToRun(filteredCommands)) =>
                /\ idx = Len(filteredCommands)
                /\ Ops("Insert") = {Len(calls)}
                /\ result = Last(calls).res
                /\ result = NoError =>
                        table = Append(run.table, Last(calls).arg)

C7_Witness ==
    /\ ~conf.WithTransaction /\ pc = "done" /\ result = NoError
    /\ Len(filteredCommands) = 2
    /\ Failed("Exec") = Ops("Exec") /\ Cardinality(Ops("Exec")) = 2
    /\ Len(table) = Len(run.table) + 1

(* C8: when the selector returns no statement, Process returns             *)
(* ErrNothingToRun, and that call starts no transaction, executes no       *)
(* statement and inserts no version record: the table is as it was.        *)

C8_NothingToRun ==
    (run.selected /\ Len(filteredCommands) = 0) =>
        /\ pc = "done" /\ result = ErrNothingToRun
        /\ Ops("StartTransaction") = {} /\ Ops("Exec") = {} /\ Ops("Insert") = {}
        /\ Ops("Commit") = {} /\ Ops("Rollback") = {}
        /\ table = run.table

C8_Witness ==
    /\ run.selected /\ Len(filteredCommands) = 0 /\ Len(commands) > 0
    /\ pc = "done" /\ result = ErrNothingToRun
    /\ conf.WithTransaction /\ Len(table) = 1

(* C9: after a successful run without target in direction d that executed  *)
(* statements of version X, the next run without target in the same        *)
(* direction over the same script selects no statement of version X; in    *)
(* direction Up it ends in ErrNothingToRun.                                 *)

C9_Idempotent ==
    (prev.ok /\ prev.target = NilSemver /\ run.selected /\ run.target = NilSemver
        /\ run.dir = prev.dir /\ Last(run.table) # ManualRow) =>
        /\ Versions(filteredCommands) \cap prev.versions = {}
        /\ (run.dir = DirectionUp /\ pc = "done") => result = ErrNothingToRun

(* C10: a successful Up run without target stores the greatest version of  *)
(* the whole parsed statement list, whatever the order of the list and     *)
(* whichever statements were executed; for an empty list getLatestVersion  *)
(* gives the zero version.                                                  *)

C10_PersistsLatest ==
    /\ getLatestVersion(<<>>) = semver(0, 0, 0)
    /\ (pc = "done" /\ result = NoError /\ run.dir = DirectionUp /\ run.target = NilSemver) =>
            /\ calls[Max(Ops("Insert"))].arg = ToString(Greatest(Versions(commands)))
            /\ Last(table) = ToString(Greatest(Versions(commands)))

C10_Witness ==
    /\ pc = "done" /\ result = NoError /\ run.dir = DirectionUp /\ run.target = NilSemver
    /\ file = ScriptUnordered
    /\ Last(table) = "2.0.0"
    /\ semver(2, 0, 0) \notin Versions(filteredCommands)
    /\ Last(commands).version = semver(1, 0, 0)

-----------------------------------------------------------------------------
\* the text handed to the Insert of the current call
Inserted == calls[Max(Ops("Insert"))].arg

\* the versions of cmds strictly below version v
Below(v, cmds) == {w \in Versions(cmds) : Above(v, w)}

(* C11: a successful Down run without target stores the greatest statement *)
(* version strictly below the current version, taken over the whole parsed *)
(* list whatever its order, and the zero version when no statement version *)
(* is strictly below the current one.                                       *)

C11_PersistsPrevious ==
    /\ getPreviousSemver(semver(1, 0, 0), <<>>) = semver(0, 0, 0)
    /\ (pc = "done" /\ result = NoError /\ run.dir = DirectionDown /\ run.target = NilSemver) =>
            LET expected == IF Below(currentVersion, commands) = {} THEN semver(0, 0, 0)
                            ELSE Greatest(Below(currentVersion, commands))
            IN  /\ Inserted = ToString(expected)
                /\ Last(table) = ToString(expected)

C11_Witness ==
    /\ pc = "done" /\ result = NoError /\ run.dir = DirectionDown /\ run.target = NilSemver
    /\ file = ScriptUnordered
    /\ currentVersion = semver(2, 0, 0)
    /\ commands[1].version = semver(2, 0, 0)
    /\ Last(table) = "1.0.0"

C11_WitnessZero ==
    /\ pc = "done" /\ result = NoError /\ run.dir = DirectionDown /\ run.target = NilSemver
    /\ currentVersion = semver(1, 0, 0)
    /\ Below(currentVersion, commands) = {}
    /\ Last(table) = "0.0.0"

(* C12: a successful run that was given a target stores exactly the target *)
(* version, in direction Up and in direction Down, whether or not a        *)
(* statement of the script has that version.                                *)

C12_PersistsTarget ==
    (pc = "done" /\ result = NoError /\ run.target # NilSemver) =>
        /\ Inserted = ToString(run.target)
        /\ Last(table) = ToString(run.target)

C12_Witness ==
    /\ pc = "done" /\ result = NoError /\ run.dir = DirectionDown
    /\ run.target = semver(0, 0, 0)
    /\ run.target \notin Versions(commands)
    /\ Len(filteredCommands) = 2
    /\ Last(table) = "0.0.0"

C12_WitnessUp ==
    /\ pc = "done" /\ result = NoError /\ run.dir = DirectionUp
    /\ run.target = semver(1, 0, 0)
    /\ Len(filteredCommands) > 0
    /\ Last(table) = "1.0.0"

-----------------------------------------------------------------------------
\* the Up run of the script with versions 1 and 1.2 on a table without rows
UpRunWithoutHistory ==
    /\ pc = "done" /\ result = NoError
    /\ file = ScriptUpDown /\ run.table = <<>>
    /\ run.dir = DirectionUp /\ run.target = NilSemver

(* C13, as stated: with no stored record, the script with versions 1 and   *)
(* 1.2, direction Up and no target, the engine executes the Up statements  *)
(* in script order and the text it persists is "1.2".                      *)

C13_EndToEnd ==
    UpRunWithoutHistory =>
        /\ ExecQueries = << "CREATE TABLE a ( id INT );", "ALTER TABLE a ADD b INT;" >>
        /\ Inserted = "1.2"
        /\ table = << "1.2" >>

(* C13, amended: in that run the engine executes the Up statements in      *)
(* script order and the text it persists is "1.2.0", the rendering of      *)
(* version 1.2 with all three components.                                   *)

C13_EndToEndCanonical ==
    UpRunWithoutHistory =>
        /\ ExecQueries = << "CREATE TABLE a ( id INT );", "ALTER TABLE a ADD b INT;" >>
        /\ Inserted = "1.2.0"
        /\ table = << "1.2.0" >>

C13_Witness ==
    /\ UpRunWithoutHistory
    /\ Failed("Exec") = {}
    /\ Cardinality(Ops("Exec")) = 2
    /\ table = << "1.2.0" >>

-----------------------------------------------------------------------------
\* the errors of a call that ends at table setup, script reading, parsing,
\* stored-version validation, selection or transaction start
EarlyErrors ==
    { "create error", ErrNoFilePath, "open error", ErrBadVersioning,
      ErrInvalidLastVersion, ErrNothingToRun, "begin error" }

(* C14: Insert is called at most once in a Process call and exactly once,  *)
(* with success, in a call that returns nil; it is not called in a call    *)
(* that ends at table setup, script reading, parsing, stored-version       *)
(* validation, selection or transaction start, nor after a statement       *)
(* failed in a transaction.                                                 *)

C14_OneRecord ==
    /\ Cardinality(Ops("Insert")) <= 1
    /\ (pc = "done" /\ result = NoError /\ runs > 0) =>
            /\ Cardinality(Ops("Insert")) = 1 /\ Failed("Insert") = {}
            /\ table = Append(run.table, Inserted)
    /\ (pc = "done" /\ result \in EarlyErrors) =>
            /\ Ops("Insert") = {}
            /\ table = run.table
    /\ (conf.WithTransaction /\ Failed("Exec") # {}) => Ops("Insert") = {}
    /\ Ops("Insert") # {} =>
            /\ run.selected /\ Len(filteredCommands) > 0
            /\ Cardinality(Ops("Exec")) = Len(filteredCommands)
            /\ conf.WithTransaction =>
                    Ops("StartTransaction") # {} /\ Failed("StartTransaction") = {}

C14_Witness ==
    /\ pc = "done" /\ result = NoError /\ runs = 2
    /\ conf.WithTransaction
    /\ Cardinality(Ops("Insert")) = 1
    /\ Len(table) = 3

C14_WitnessFailed ==
    /\ pc = "done" /\ result = "begin error"
    /\ Ops("Insert") = {} /\ table = run.table

-----------------------------------------------------------------------------
\* the newest row of the table the current call started on is no version
StoredInvalid == Len(run.table) > 0 /\ newSemver(Last(run.table)) = NilSemver

(* C15: in a Process call that finds a newest stored record whose text     *)
(* does not parse to a version, no statement is executed, no transaction   *)
(* is started and no record is inserted, and once the call has read the    *)
(* stored record it has returned ErrInvalidLastVersion.                     *)

C15_InvalidStored ==
    StoredInvalid =>
        /\ Ops("Exec") = {} /\ Ops("StartTransaction") = {} /\ Ops("Insert") = {}
        /\ Ops("GetLatest") # {} => pc = "done" /\ result = ErrInvalidLastVersion

(* C16: once SetupDatabase has run in a call, CreateTable has not been     *)
(* called if the tracking table exists and has been called exactly once if *)
(* it does not; the call goes on exactly when the table existed or the     *)
(* creation succeeded, and after a creation error Process has returned     *)
(* that error without reading the script or executing a statement.         *)

C16_SetupDatabase ==
    Ops("DoesExists") # {} =>
        /\ tableExists => Ops("CreateTable") = {}
        /\ ~tableExists => Cardinality(Ops("CreateTable")) = 1
        /\ Failed("CreateTable") # {} =>
                /\ pc = "done" /\ result = calls[Min(Failed("CreateTable"))].res
                /\ lines = <<>> /\ Ops("Exec") = {}

-----------------------------------------------------------------------------
\* what the comparison op of the pair (currentVersion, targetVersion) returned
Answer(op) == calls[Min(Ops(op))].res = "true"

(* C17: GreaterThan(a, b) returns true exactly when (a.major, a.minor,     *)
(* a.patch) is strictly above (b.major, b.minor, b.patch) in the           *)
(* lexicographic order; it is irreflexive, asymmetric and transitive.      *)

C17_GreaterThan ==
    Ops("GreaterThan") # {} =>
        LET a == currentVersion
            b == targetVersion
        IN  /\ Answer("GreaterThan") <=> Above(a, b)
            /\ a = b => ~Answer("GreaterThan")
            /\ Answer("GreaterThan") => ~GreaterThan(b, a)
            /\ \A c \in SemverValues :
                    Answer("GreaterThan") /\ GreaterThan(b, c) => GreaterThan(a, c)

C17_Witness ==
    /\ Ops("GreaterThan") # {} /\ Answer("GreaterThan")
    /\ currentVersion = semver(1, 0, 0) /\ targetVersion = semver(0, 2, 2)

C17_WitnessNot ==
    /\ Ops("GreaterThan") # {} /\ ~Answer("GreaterThan")
    /\ currentVersion = semver(0, 2, 2) /\ targetVersion = semver(1, 0, 0)

(* C18: WouldRollback(a, b) returns true exactly when a is strictly below  *)
(* b, and of GreaterThan(a, b), Equals(a, b) and WouldRollback(a, b)       *)
(* exactly one returns true.                                                *)

C18_WouldRollback ==
    pc = "compared" =>
        /\ Answer("WouldRollback") <=> Above(targetVersion, currentVersion)
        /\ Cardinality({op \in {"GreaterThan", "Equals", "WouldRollback"} : Answer(op)}) = 1

C18_Witness ==
    /\ pc = "compared" /\ Answer("WouldRollback")
    /\ currentVersion = semver(1, 2, 0) /\ targetVersion = semver(1, 2, 1)

C18_WitnessEqual ==
    /\ pc = "compared" /\ Answer("Equals") /\ ~Answer("WouldRollback")
    /\ currentVersion = semver(1, 2, 1)

(* C19: for every text that newSemver turns into a version, newSemver of   *)
(* the ToString of that version is the same version; so for "0.0.0".       *)

C19_RoundTrip ==
    pc = "reparsed" =>
        /\ currentVersion = newSemver(lines[1]) /\ currentVersion # NilSemver
        /\ targetVersion = currentVersion

C19_Witness ==
    /\ pc = "reparsed" /\ lines[1] = "v1.2.3"
    /\ result = "1.2.3" /\ targetVersion = semver(1, 2, 3)

C19_WitnessZero ==
    /\ pc = "reparsed" /\ lines[1] = "0.0.0"
    /\ result = "0.0.0" /\ targetVersion = semver(0, 0, 0)

(* C20: newSemver returns the zero version for the text "0.0.0" and for no *)
(* other text; a text other than "0.0.0" whose components all come out as  *)
(* 0, such as "", "0.0", "0", "v0.0.0" and "abc.asd.asd", gives nil.       *)

C20_ZeroVersion ==
    pc = "parsed" =>
        /\ currentVersion = semver(0, 0, 0) <=> lines[1] = "0.0.0"
        /\ lines[1] \in {"", "0.0", "0", "v0.0.0", "abc.asd.asd"} =>
                currentVersion = NilSemver
        /\ currentVersion \notin {NilSemver, semver(0, 0, 0)} =>
                /\ currentVersion.major >= 0 /\ currentVersion.minor >= 0
                /\ currentVersion.patch >= 0
                /\ currentVersion.major + currentVersion.minor + currentVersion.patch > 0

C20_Witness ==
    /\ pc = "parsed" /\ lines[1] = "v0.0.0" /\ currentVersion = NilSemver

C20_WitnessZero ==
    /\ pc = "parsed" /\ lines[1] = "0.0.0" /\ currentVersion = semver(0, 0, 0)

-----------------------------------------------------------------------------
\* the components of a version text: the text without a leading v, cut at the dots
Components(text) ==
    Split(IF HasPrefix(text, "v") THEN SubSeq(text, 2, Len(text)) ELSE text, ".")

IsNumber(p) == Len(p) > 0 /\ \A i \in 1..Len(p) : Index(Digits, Char(p, i)) # -1

\* the value a component gives its position: the number it spells, 0 when it is
\* missing, negative or not a number
ComponentValue(text, i) ==
    LET parts == Components(text)
    IN  IF i > Len(parts) THEN 0
        ELSE IF IsNumber(parts[i]) THEN DigitsValue(parts[i])
        ELSE 0

\* texts whose components are numbers, negative numbers or not numbers at all
PlainTexts == VersionTexts \ {"+1.2"}

(* C21: in the version newSemver returns, every position holds the number  *)
(* its own component spells, and 0 when that component is not a number, is *)
(* negative or is missing, whatever the other components are; components   *)
(* after the third are ignored ("1.fo.3" gives 1.0.3).                     *)

C21_Permissive ==
    (pc = "parsed" /\ currentVersion # NilSemver /\ lines[1] \in PlainTexts) =>
        /\ currentVersion.major = ComponentValue(lines[1], 1)
        /\ currentVersion.minor = ComponentValue(lines[1], 2)
        /\ currentVersion.patch = ComponentValue(lines[1], 3)
        /\ lines[1] = "1.fo.3" => currentVersion = semver(1, 0, 3)
        /\ lines[1] = "1.2.3.4" => currentVersion = semver(1, 2, 3)
        /\ lines[1] = "1.-2" => currentVersion = semver(1, 0, 0)
        /\ lines[1] = "12" => currentVersion = semver(12, 0, 0)

C21_Witness ==
    /\ pc = "parsed" /\ lines[1] = "1.fo.3" /\ currentVersion = semver(1, 0, 3)

C21_WitnessNegative ==
    /\ pc = "parsed" /\ lines[1] = "-1.2" /\ currentVersion = semver(0, 2, 0)

-----------------------------------------------------------------------------
(* reading a script the way the format is described *)

IsTag(l) == HasPrefix(TrimSpace(l), "#v")

\* what follows the #v of a tag line
TagText(l) == SubSeq(TrimSpace(l), 3, Len(TrimSpace(l)))

\* a tag line with nothing after #v, with a text that is no version, or with a
\* second #v in it
Malformed(l) ==
    /\ IsTag(l)
    /\ \/ TagText(l) = ""
       \/ Index(TagText(l), "#v") # -1
       \/ newSemver(TagText(l)) = NilSemver

(* C22: when a line of the script is a malformed version tag (nothing      *)
(* after #v, a text that is no version, or more than one #v), ParseLines   *)
(* returns ErrBadVersioning and no statement, whatever it had parsed       *)
(* before that line; it returns that error for no other script.            *)

C22_BadVersioning ==
    pc = "parsed" =>
        LET bad == \E i \in 1..Len(lines) : Malformed(lines[i]) IN
        /\ bad => err = ErrBadVersioning /\ commands = <<>>
        /\ err = ErrBadVersioning => bad
        /\ err \in {NoError, ErrBadVersioning}

C22_Witness ==
    /\ pc = "parsed" /\ err = ErrBadVersioning /\ commands = <<>>
    /\ Len(parser.commandStack) = 2
    /\ Last(lines) = "#v1#v2"

C22_WitnessEmpty ==
    /\ pc = "parsed" /\ err = ErrBadVersioning /\ Last(lines) = "#v"
    /\ Len(parser.commandStack) = 1

C22_WitnessNoVersion ==
    /\ pc = "parsed" /\ err = ErrBadVersioning /\ Last(lines) = "#vx"
    /\ parser.isInsideMultiLineComment

-----------------------------------------------------------------------------
IsMarker(l) == TrimSpace(l) \in {"#[UP]", "#[DOWN]"}

\* the words of a text: what stands between its spaces
Words(text) ==
    LET IsWord(w) == w # ""
    IN  SelectSeq(Split(text, " "), IsWord)

RECURSIVE WordsOf(_)
WordsOf(ls) == IF Len(ls) = 0 THEN <<>> ELSE Words(Head(ls)) \o WordsOf(Tail(ls))

\* a is b with some of its elements left out
RECURSIVE IsSubsequence(_, _)
IsSubsequence(a, b) ==
    IF Len(a) = 0 THEN TRUE
    ELSE IF Len(b) = 0 THEN FALSE
    ELSE IF Head(a) = Head(b) THEN IsSubsequence(Tail(a), Tail(b))
    ELSE IsSubsequence(a, Tail(b))

\* position of the last version tag among ls, 0 when there is none
LastTag(ls) == Max({0} \cup {i \in 1..Len(ls) : IsTag(ls[i])})

\* the lines of ls after its last version tag
OwnBlock(ls) == SubSeq(ls, LastTag(ls) + 1, Len(ls))

\* the step emits a statement
Emits == Len(parser'.commandStack) = Len(parser.commandStack) + 1

(* C23: whenever ParseLines emits a statement, its text is made of words   *)
(* of the lines read after the most recent version tag, in their order:    *)
(* nothing that stands before the first version tag, and nothing left      *)
(* unterminated in an earlier block, is part of it.                         *)

C23_InsideBlock ==
    [][Emits => IsSubsequence(Words(Last(parser'.commandStack).query),
                              WordsOf(OwnBlock(lines')))]_vars

\* the direction the markers of a block give: that of its last marker, Up when
\* it has none
MarkedDirection(block) ==
    LET ms == {i \in 1..Len(block) : IsMarker(block[i])} IN
    IF ms = {} THEN DirectionUp
    ELSE IF TrimSpace(block[Max(ms)]) = "#[DOWN]" THEN DirectionDown
    ELSE DirectionUp

(* C24: whenever ParseLines emits a statement, its direction is the one of *)
(* the most recent #[UP] or #[DOWN] marker read since the most recent      *)
(* version tag, and Up when there is no marker since that tag: #[UP] after *)
(* #[DOWN] switches back to Up, and a new version tag resets to Up.        *)

C24_Direction ==
    [][Emits => Last(parser'.commandStack).dir = MarkedDirection(OwnBlock(lines'))]_vars

\* a statement of a block that switched to Down and back to Up
C24_Witness ==
    /\ lines = <<"#v1", "#[DOWN]", "#[UP]", "B;">>
    /\ Len(parser.commandStack) = 1
    /\ Last(parser.commandStack).dir = DirectionUp

\* a statement under a Down marker
C24_WitnessDown ==
    /\ lines = <<"#v1", "#[DOWN]", "A", "B;">>
    /\ Len(parser.commandStack) = 1
    /\ Last(parser.commandStack).dir = DirectionDown

\* a statement of a block that follows a block ending in Down
C24_WitnessReset ==
    /\ lines = <<"#v1", "#[DOWN]", "#v2", "B;">>
    /\ Len(parser.commandStack) = 1
    /\ Last(parser.commandStack).dir = DirectionUp

\* a line without its line comment: what stands before its first --
Uncommented(l) ==
    LET t == TrimSpace(l) IN
    IF Index(t, "--") # -1 THEN SubSeq(t, 1, Index(t, "--")) ELSE t

Contains(l, mark) == Index(Uncommented(l), mark) # -1

\* a content line that ends a statement
Terminates(l) == HasSuffix(TrimSpace(Uncommented(l)), ";")

\* reading as the format describes it: the version of the most recent tag, the
\* lines accumulated since the previous statement or tag, whether a block
\* comment is open, and the statements so far
DescribedStart == [version |-> NilSemver, buffer |-> <<>>, skip |-> FALSE, out |-> <<>>]

DescribedLine(st, raw) ==
    IF st.skip THEN [st EXCEPT !.skip = ~Contains(raw, "*/")]
    ELSE IF IsMarker(raw) THEN st
    ELSE IF IsTag(raw)
        THEN [st EXCEPT !.version = newSemver(TagText(raw)), !.buffer = <<>>]
    ELSE IF Contains(raw, "*/") THEN st
    ELSE IF Contains(raw, "/*") THEN [st EXCEPT !.skip = TRUE]
    ELSE IF Uncommented(raw) = "" THEN st
    ELSE IF Terminates(raw)
        THEN [st EXCEPT
                !.out = IF st.version # NilSemver
                        THEN Append(@, [query   |-> Join(Append(st.buffer, Uncommented(raw)), " "),
                                        version |-> st.version])
                        ELSE @,
                !.buffer = <<>>]
    ELSE [st EXCEPT !.buffer = Append(@, Uncommented(raw))]

RECURSIVE Described(_, _)
Described(st, ls) ==
    IF Len(ls) = 0 THEN st.out
    ELSE Described(DescribedLine(st, Head(ls)), Tail(ls))

\* text and version of the statements ParseLines returned
Assembled == [i \in 1..Len(commands) |->
                [query |-> commands[i].query, version |-> commands[i].version]]

(* C25: the statements ParseLines returns are, in source order, one for    *)
(* each line ending in ; under an established version, each with the       *)
(* version of the most recent version tag and with the single-space join   *)
(* of the non-blank, non-comment lines since the previous statement or     *)
(* version tag as its text.                                                *)

C25_Assembly ==
    pc = "parsed" /\ err = NoError => Assembled = Described(DescribedStart, lines)

\* line i of ls stands in a block comment: some line up to it contains /* and
\* no line from that one up to the one before it contains */
InBlockComment(ls, i) ==
    \E j \in 1..i :
        /\ Contains(ls[j], "/*")
        /\ \A k \in j..(i - 1) : ~Contains(ls[k], "*/")

\* the step reads a line
Reads == lines' # lines

(* C26: a line that ParseLines reads inside a block comment (from a line     *)
(* containing the opening mark up to and including the next line containing  *)
(* the closing mark) is discarded: reading it changes neither the version,   *)
(* nor the direction, nor the buffer, nor the statements of the parser.      *)

C26_Discarded ==
    [][Reads /\ InBlockComment(lines', Len(lines')) =>
            /\ parser'.currentVersion = parser.currentVersion
            /\ parser'.dir = parser.dir
            /\ parser'.lineStack = parser.lineStack
            /\ parser'.commandStack = parser.commandStack]_vars

\* the line just read is a content line: no tag, no marker, outside block
\* comments, and not blank once its line comment is removed
ReadsContent ==
    /\ Reads
    /\ LET l == Last(lines') IN
        /\ ~IsTag(l) /\ ~IsMarker(l)
        /\ ~InBlockComment(lines', Len(lines')) /\ ~Contains(l, "*/")
        /\ TrimSpace(Uncommented(l)) # ""

(* C27: a content line is taken without what stands from its first -- on,  *)
(* and it terminates the buffered statement (the buffer is emptied, and     *)
(* under an established version a statement is emitted) exactly when what   *)
(* remains of it, trimmed, ends with a semicolon.                           *)

C27_Terminator ==
    [][ReadsContent =>
            LET l == Last(lines') IN
            IF Terminates(l)
            THEN /\ parser'.lineStack = <<>>
                 /\ parser.currentVersion # NilSemver => Emits
            ELSE /\ parser'.lineStack = Append(parser.lineStack, Uncommented(l))
                 /\ ~Emits]_vars

-----------------------------------------------------------------------------
(* the stages of one Process call *)

\* the stage a recorded call belongs to
Stage(op) ==
    CASE op \in {"DoesExists", "CreateTable"} -> 1
      [] op = "GetLatest"                     -> 3
      [] op = "StartTransaction"              -> 5
      [] op = "Exec"                          -> 6
      [] op = "Insert"                        -> 7
      [] op \in {"Commit", "Rollback"}        -> 8

\* a recorded call whose failure ends the Process call: every failure but the
\* one of a statement run without a transaction
Fatal(i) ==
    /\ calls[i].op \in {"CreateTable", "StartTransaction", "Exec", "Insert", "Commit", "Rollback"}
    /\ calls[i].res # NoError
    /\ calls[i].op = "Exec" => conf.WithTransaction

\* what ParseLines returns for each script
ParsedScripts == [f \in Scripts |-> ParseLines(f)]

\* the script has been read and parsed without error
Parsed ==
    /\ lines = file
    /\ ParsedScripts[file].err = NoError
    /\ commands = ParsedScripts[file].commands

(* C28: the calls of one Process call come in the order of the stages:     *)
(* table check and creation, script read and parse, stored-version read,   *)
(* selection, transaction begin (only when configured), statements, version *)
(* insert, commit. After a fatal failure nothing of a later stage is done   *)
(* (only the rollback of the transaction follows a failed statement or a   *)
(* failed insert): no statement is executed before a non-empty selection,   *)
(* no insert before every selected statement was executed, and no commit    *)
(* before the insert succeeded.                                             *)

C28_StageOrder ==
    /\ \A i, j \in 1..Len(calls) : i < j => Stage(calls[i].op) <= Stage(calls[j].op)
    /\ calls # <<>> => calls[1].op = "DoesExists"
    /\ Cardinality(Ops("Commit") \cup Ops("Rollback")) <= 1
    /\ \A i \in 1..Len(calls) :
            Fatal(i) => \A j \in (i + 1)..Len(calls) :
                            /\ calls[j].op = "Rollback"
                            /\ calls[i].op \in {"Exec", "Insert"}
    /\ Ops("GetLatest") # {} => Parsed
    /\ run.selected => Ops("GetLatest") # {}
    /\ Ops("StartTransaction") # {} => run.selected /\ conf.WithTransaction
    /\ Ops("Exec") # {} =>
            /\ run.selected /\ filteredCommands # <<>>
            /\ conf.WithTransaction => Ops("StartTransaction") # {}
    /\ Ops("Insert") # {} => Cardinality(Ops("Exec")) = Len(filteredCommands)
    /\ Ops("Commit") # {} => Ops("Insert") # {} /\ Failed("Insert") = {}

\* a call that went through every stage
C28_Witness ==
    /\ pc = "done" /\ result = NoError /\ conf.WithTransaction
    /\ Ops("CreateTable") # {} /\ Ops("Commit") # {}
    /\ Cardinality(Ops("Exec")) = 2

\* a call that ended at the insert: rolled back, not committed
C28_WitnessFailed ==
    /\ pc = "done" /\ result = "insert error"
    /\ Failed("Insert") # {} /\ Ops("Rollback") # {} /\ Ops("Commit") = {}

\* a call that ended at selection: nothing of the later stages
C28_WitnessNothing ==
    /\ pc = "done" /\ result = ErrNothingToRun /\ run.selected
    /\ Ops("GetLatest") # {} /\ Ops("Exec") = {} /\ Ops("Insert") = {}

-----------------------------------------------------------------------------
\* a is the beginning of b
IsPrefix(a, b) == Len(a) <= Len(b) /\ a = SubSeq(b, 1, Len(a))

\* the parsed statements the selection left out
Unselected ==
    {commands[i] : i \in 1..Len(commands)} \
        {filteredCommands[i] : i \in 1..Len(filteredCommands)}

(* C29: the statements executed in a Process call are statements the       *)
(* selection returned, in the order of the selection and each at most once: *)
(* they are a beginning of the selected list, the whole of it once the call *)
(* has come to the insert, and nothing is executed before the selection. A  *)
(* parsed statement the selection left out is not executed in that call.    *)

C29_RunsSelected ==
    /\ ~run.selected => ExecQueries = <<>>
    /\ run.selected =>
            /\ filteredCommands = filterCommands(currentVersion, commands, run.dir, run.target)
            /\ IsPrefix(ExecQueries, Queries(filteredCommands))
            /\ \A c \in Unselected : \A i \in 1..Len(ExecQueries) : ExecQueries[i] # c.query
            /\ Ops("Insert") # {} => ExecQueries = Queries(filteredCommands)

\* a call that returned nil after it left parsed statements out
C29_Witness ==
    /\ pc = "done" /\ result = NoError
    /\ Len(ExecQueries) = 2 /\ Len(commands) > 2
    /\ Unselected # {}

\* a call that stopped at its first statement
C29_WitnessStopped ==
    /\ pc = "done" /\ Failed("Exec") # {}
    /\ Len(ExecQueries) = 1 /\ Len(filteredCommands) = 2

-----------------------------------------------------------------------------
(* C30, as stated: when ProcessWithDirection has returned, with nil or with *)
(* any error, the direction of the engine is Up; when                       *)
(* ProcessWithTargetVersion has returned, with nil or with any error, the   *)
(* engine has no target version.                                            *)

C30_WrapperReset ==
    pc = "done" =>
        /\ api = "ProcessWithDirection" => dir = DirectionUp
        /\ api = "ProcessWithTargetVersion" => targetVersion = NilSemver

(* C30, amended: when ProcessWithDirection has returned, with nil or with   *)
(* any error, the direction of the engine is Up; when                       *)
(* ProcessWithTargetVersion has returned from a call whose text is a        *)
(* version, with nil or with any error, the engine has no target version,   *)
(* and a plain Process call that follows starts without one; a call whose   *)
(* text is no version returns ErrBadVersioning and leaves the target        *)
(* version of the engine as it was.                                         *)

C30_WrapperResetParsed ==
    [][/\ pc' = "done" /\ api' = "ProcessWithDirection" => dir' = DirectionUp
       /\ pc' = "done" /\ api' = "ProcessWithTargetVersion" =>
            IF newSemver(run'.arg) # NilSemver
            THEN targetVersion' = NilSemver
            ELSE targetVersion' = targetVersion /\ result' = ErrBadVersioning
       /\ /\ pc = "done" /\ api = "ProcessWithTargetVersion"
          /\ newSemver(run.arg) # NilSemver /\ api' = "Process"
          => targetVersion' = NilSemver]_vars

\* a wrapper call with a version text, on an engine built with a target, that
\* returned an error
C30_Witness ==
    /\ pc = "done" /\ api = "ProcessWithTargetVersion"
    /\ run.arg = "1" /\ options.target = "1" /\ runs = 1
    /\ result \notin {NoError, ErrBadVersioning}
    /\ targetVersion = NilSemver

\* a wrapper call with a text that is no version, on an engine built with a target
C30_WitnessBadText ==
    /\ pc = "done" /\ api = "ProcessWithTargetVersion"
    /\ run.arg = "x" /\ result = ErrBadVersioning
    /\ targetVersion # NilSemver

\* a Down call on an engine built with direction Down
C30_WitnessDirection ==
    /\ pc = "done" /\ api = "ProcessWithDirection"
    /\ run.arg = DirectionDown /\ options.dir = DirectionDown
    /\ result # NoError
    /\ dir = DirectionUp

\* a plain call after a wrapper call with a version text
C30_WitnessLater ==
    /\ api = "Process" /\ runs = 2 /\ run.selected
    /\ options.target = "1" /\ run.target = NilSemver

-----------------------------------------------------------------------------
(* C31: DoesExists answers true exactly when the tracking table exists (the *)
(* lookup finds its row) and false when it does not, so that in a call that *)
(* has run SetupDatabase, CreateTable was called exactly when the table was *)
(* absent.                                                                  *)

C31_DoesExists ==
    Ops("DoesExists") # {} =>
        /\ Answer("DoesExists") <=> tableExists
        /\ Ops("CreateTable") # {} <=> ~tableExists

-----------------------------------------------------------------------------
(* C32: on an engine constructed without a direction option, a plain       *)
(* Process call that has no target selects in direction Up, whatever calls  *)
(* were made on the engine before it.                                       *)

C32_DefaultDirection ==
    /\ api = "Process" /\ options.dir = DirectionUp
    /\ run.selected /\ run.target = NilSemver
    => run.dir = DirectionUp

-----------------------------------------------------------------------------
\* the version stored when the current call started, the zero version when no
\* row was stored
CurrentAtStart == IF Len(run.table) = 0 THEN bottomVersion ELSE StoredAtStart

(* C33: a Process call that returns nil has moved the stored version in its *)
(* direction: the version it inserted is strictly above the version stored  *)
(* at its start after an Up run and strictly below it after a Down run,     *)
(* with or without a target, for every script ParseLines accepts.           *)

C33_Moves ==
    pc = "done" /\ result = NoError /\ CurrentAtStart # NilSemver =>
        IF run.dir = DirectionUp
        THEN Above(newSemver(Inserted), CurrentAtStart)
        ELSE Above(CurrentAtStart, newSemver(Inserted))

-----------------------------------------------------------------------------
\* positions of the calls of StartTransaction that succeeded, and of the calls
\* that end a transaction
Started == Ops("StartTransaction") \ Failed("StartTransaction")

Ended == Ops("Commit") \cup Ops("Rollback")

(* C34: in a Process call, a successful StartTransaction is followed by at  *)
(* most one call of Commit or Rollback, and by exactly one of the two, not  *)
(* both, once Process has returned; when transactions are not configured or *)
(* StartTransaction failed, neither Commit nor Rollback is called.          *)

C34_Bracketing ==
    /\ Cardinality(Ops("StartTransaction")) <= 1
    /\ ~conf.WithTransaction => Ops("StartTransaction") = {}
    /\ Started = {} => Ended = {}
    /\ Started # {} =>
            /\ Cardinality(Ended) <= 1
            /\ \A i \in Started, j \in Ended : i < j
            /\ pc = "done" => Cardinality(Ended) = 1

\* a transaction that was committed
C34_Witness ==
    /\ pc = "done" /\ Started # {} /\ Ops("Commit") # {} /\ Ops("Rollback") = {}
    /\ result = NoError

\* a transaction that was rolled back after a failed statement
C34_WitnessRollback ==
    /\ pc = "done" /\ Started # {} /\ Ops("Rollback") # {} /\ Ops("Commit") = {}
    /\ Failed("Exec") # {}

\* a call whose StartTransaction failed
C34_WitnessNotStarted ==
    /\ pc = "done" /\ Failed("StartTransaction") # {} /\ Ended = {}
    /\ result = "begin error"

\* a call without transactions in which a statement failed
C34_WitnessNotConfigured ==
    /\ pc = "done" /\ ~conf.WithTransaction /\ Failed("Exec") # {} /\ Ended = {}

-----------------------------------------------------------------------------
\* the call is about to run a query or a statement through the Database
AtDatabase == pc \in {"SetupDatabase", "GetLatest", "runCommands", "Insert"}

(* C35: whenever a Process call is about to run a query or a statement, the *)
(* Database routes it through a transaction exactly when a transaction was  *)
(* started with success in that call and neither Commit nor Rollback has    *)
(* been called since; after Commit or Rollback the operations of a later    *)
(* call go to the plain connection.                                         *)

C35_HandleLifetime ==
    AtDatabase => (Route(tx) = "tx" <=> Started # {} /\ Ended = {})

-----------------------------------------------------------------------------
(* C36: no Process call ends otherwise than by returning, with nil or with *)
(* an error, whether a logger was injected or not: each Info or Error call  *)
(* of the engine returns, so the runtime never aborts the call.             *)

C36_Terminates == pc # "crashed"

-----------------------------------------------------------------------------
\* a target version text that was given and is no version
BadTarget(text) == text # "" /\ newSemver(text) = NilSemver

(* C37: a call whose target version text is no version, given to           *)
(* ProcessWithTargetVersion or given with the WithTargetVersion option and  *)
(* followed by Process, makes no call to the database, executes no          *)
(* statement, and returns ErrBadVersioning.                                 *)

C37_BadTarget ==
    \/ api = "ProcessWithTargetVersion" /\ BadTarget(run.arg)
    \/ api = "Process" /\ BadTarget(options.target)
    => /\ calls = <<>>
       /\ pc = "done" => result = ErrBadVersioning

-----------------------------------------------------------------------------
\* the call selected in direction Down with a target, and statements of more
\* than one version
MultiDown ==
    /\ run.selected /\ run.dir = DirectionDown /\ run.target # NilSemver
    /\ Cardinality(Versions(filteredCommands)) > 1

\* the statements executed so far are in the order of their versions, lowest first
LowerFirst ==
    \A i, j \in 1..Len(ExecQueries) :
        i < j => AtMost(filteredCommands[i].version, filteredCommands[j].version)

\* the blocks of cmds stand in the order of their versions, lowest first
Ascending(cmds) ==
    \A i, j \in 1..Len(cmds) : i < j => AtMost(cmds[i].version, cmds[j].version)

(* C38, as stated: in a Down run with a target that covers several         *)
(* versions, the selected Down statements are executed in their script      *)
(* order, the Down statements of a lower version before those of a higher   *)
(* version.                                                                 *)

C38_LowerFirst ==
    MultiDown =>
        /\ IsSubsequence(ExecQueries, Queries(commands))
        /\ LowerFirst

(* C38, amended: in a Down run with a target that covers several versions,  *)
(* the selected Down statements are selected and executed in their script   *)
(* order, never reversed or sorted anew: when the blocks of the script      *)
(* stand in ascending order of version, the Down statements of a lower      *)
(* version run before those of a higher version, and otherwise the order of *)
(* the script decides.                                                      *)

C38_ScriptOrder ==
    MultiDown =>
        /\ IsSubsequence(Queries(filteredCommands), Queries(commands))
        /\ IsSubsequence(ExecQueries, Queries(commands))
        /\ Ascending(commands) => LowerFirst

\* a Down run from 1.2.0 to the target 0.0.0 over the blocks 1 and 1.2
C38_Witness ==
    /\ pc = "done" /\ result = NoError /\ MultiDown
    /\ file = ScriptUpDown /\ Ascending(commands)
    /\ ExecQueries = <<"DROP TABLE a;", "ALTER TABLE a DROP b;">>

\* a Down run over the blocks 2 and 1 of a script that has them in this order
C38_WitnessUnordered ==
    /\ pc = "done" /\ result = NoError /\ MultiDown
    /\ file = ScriptUnordered /\ ~Ascending(commands)
    /\ ExecQueries = <<"DROP TABLE c;", "DROP TABLE a;">>

=============================================================================
